---- MODULE Spec2Model ----
(***************************************************************************)
(* Model of scripts/process_prompt.py: the sequential job pipeline         *)
(*   load_config -> render_template -> call_bedrock -> save_output ->      *)
(*   upload_to_s3, once per descriptor file matched by the glob.           *)
(*                                                                         *)
(* Strings whose characters the program inspects or concatenates (slug,    *)
(* extension, file path, environment tag, object key) are sequences of     *)
(* one-character strings.  Generated text and file contents are sequences  *)
(* of chunks.  Every call to the outside (filesystem, Bedrock, S3) either  *)
(* takes effect and returns, or raises; save_output makes two such calls,  *)
(* open (which truncates the file) and write.                              *)
(***************************************************************************)
EXTENDS Integers, Sequences, FiniteSets, TLC

\* Largest number of descriptor files matched by the glob.
MaxJobs == 2

(***************************************************************************)
(* String literals of the source.                                          *)
(***************************************************************************)
Str_html == <<"h", "t", "m", "l">>
Str_md == <<"m", "d">>
Str_outputs == <<"o", "u", "t", "p", "u", "t", "s">>
Str_beta == <<"b", "e", "t", "a">>
Str_outputs_prefix == <<"/", "o", "u", "t", "p", "u", "t", "s", "/">>
MODEL_ID == "anthropic.claude-3-sonnet-20240229-v1:0"

(***************************************************************************)
(* pathlib: Path(dir) / name for a name without "/", Path.name and         *)
(* Path.suffix.                                                            *)
(***************************************************************************)
RFind(s, c) ==
    LET hits == {k \in 1..Len(s) : s[k] = c}
    IN  IF hits = {} THEN 0 ELSE CHOOSE k \in hits : \A h \in hits : h <= k

PathJoin(dir, name) == dir \o <<"/">> \o name

PathName(p) == SubSeq(p, RFind(p, "/") + 1, Len(p))

\* suffix: name[i:] when the last "." is neither the first nor the last
\* character of the name, "" otherwise.
PathSuffix(p) ==
    LET name == PathName(p)
        j == RFind(name, ".")
    IN  IF 1 < j /\ j < Len(name) THEN SubSeq(name, j, Len(name)) ELSE <<>>

(***************************************************************************)
(* The files under prompt_templates/.  A token is literal text, a plain    *)
(* reference {{ x }} or an attribute reference {{ x.attr }}.               *)
(***************************************************************************)
Lit(t) == [kind |-> "lit", text |-> t]
Var(x) == [kind |-> "var", text |-> x]
Attr(x) == [kind |-> "attr", text |-> x]

TemplateFiles ==
    [greet |-> <<Lit("Hello, "), Var("name"), Lit("!")>>,
     user |-> <<Lit("Dear "), Attr("user"), Lit(",")>>]

TemplateRefs(tokens) ==
    {tokens[k].text : k \in {n \in 1..Len(tokens) : tokens[n].kind # "lit"}}

Defined(variables, x) == \E p \in variables : p[1] = x
Lookup(variables, x) == (CHOOSE p \in variables : p[1] = x)[2]

(***************************************************************************)
(* jinja2 Template.render over the mapping, with the default Undefined:    *)
(* an undefined name prints as the empty string, an attribute of an        *)
(* undefined name raises UndefinedError.                                   *)
(***************************************************************************)
RECURSIVE Render(_, _)
Render(tokens, variables) ==
    IF tokens = <<>> THEN [ok |-> TRUE, text |-> <<>>]
    ELSE LET t == Head(tokens)
             rest == Render(Tail(tokens), variables)
             piece == IF t.kind = "lit" THEN <<t.text>>
                      ELSE IF Defined(variables, t.text)
                           THEN <<Lookup(variables, t.text)>>
                           ELSE <<>>
         IN  IF t.kind = "attr" /\ ~Defined(variables, t.text)
             THEN [ok |-> FALSE, text |-> <<>>]
             ELSE [ok |-> rest.ok, text |-> IF rest.ok THEN piece \o rest.text ELSE <<>>]

\* render_template: open the template file, then render it.
render_template(template_name, variables) ==
    IF template_name \notin DOMAIN TemplateFiles
    THEN [ok |-> FALSE, exc |-> "FileNotFoundError", text |-> <<>>]
    ELSE LET r == Render(TemplateFiles[template_name], variables)
         IN  [ok |-> r.ok, exc |-> IF r.ok THEN "" ELSE "UndefinedError", text |-> r.text]

(***************************************************************************)
(* The descriptor files the glob can match.                                *)
(***************************************************************************)
Greeting ==
    [template |-> "greet", variables |-> {<<"name", "Ada">>}, max_tokens |-> 50,
     slug |-> <<"a">>, output_format |-> Str_md]

DescriptorFiles ==
    { [wellformed |-> TRUE, json |-> Greeting],
      [wellformed |-> TRUE, json |-> [Greeting EXCEPT !.output_format = Str_html]],
      [wellformed |-> TRUE, json |-> [Greeting EXCEPT !.variables = {},
                                        !.slug = <<"b">>,
                                        !.output_format = <<"t", "x", "t">>]],
      [wellformed |-> TRUE, json |-> [Greeting EXCEPT !.template = "absent"]],
      [wellformed |-> TRUE, json |-> [Greeting EXCEPT !.slug = <<>>,
                                        !.output_format = Str_html]],
      [wellformed |-> TRUE, json |-> [Greeting EXCEPT !.template = "user",
                                        !.variables = {}]],
      [wellformed |-> TRUE, json |-> [template |-> "greet",
                                        variables |-> {<<"name", "Ada">>},
                                        max_tokens |-> 50,
                                        output_format |-> Str_md]],
      [wellformed |-> FALSE, json |-> Greeting] }

\* What the generation service can answer.
Texts == {<<"Hi Ada,", " welcome!">>, <<"Hello.">>}

\* The process environment: each variable is set or not.
Environs ==
    { [n \in names |-> IF n = "ENVIRONMENT" THEN <<"p", "r", "o", "d">>
                       ELSE IF n = "AWS_REGION" THEN <<"r", "1">>
                       ELSE <<"b", "k", "t">>] :
      names \in SUBSET {"ENVIRONMENT", "AWS_REGION", "S3_BUCKET"} }

SeqsUpTo(S, n) == UNION {[1..k -> S] : k \in 0..n}

\* upload_to_s3, lines 58 and 62: the key of the object.
ObjectKey(file_path, env) == env \o Str_outputs_prefix \o PathName(file_path)

VARIABLES
    environ,      \* os.environ
    prompts,      \* the descriptor files the glob yields, in its order
    files,        \* the local files under outputs/: {[path, content]}
    remote,       \* the objects of the bucket: {[bucket, key, body, ctype]}
    stdout,       \* the lines printed
    pc,           \* where main is
    job,          \* index of the descriptor the loop is at
    environment,  \* main's locals
    region,
    cfg,
    prompt,
    output,
    out_file,
    exit,         \* the process's exit status
    error,        \* the uncaught exception, "" if none
    events,       \* history: one entry per stage executed
    requests,     \* history: one entry per invoke_model call
    writes,       \* history: one entry per file opened for writing
    uploads       \* history: one entry per s3.upload_file call

vars ==
    <<environ, prompts, files, remote, stdout, pc, job, environment, region, cfg,
      prompt, output, out_file, exit, error, events, requests, writes, uploads>>

locals == <<environment, region, cfg, prompt, output, out_file>>
world == <<files, remote, stdout>>
history == <<requests, writes, uploads>>

NoCfg == [wellformed |-> FALSE]

Init ==
    /\ environ \in Environs
    /\ prompts \in SeqsUpTo(DescriptorFiles, MaxJobs)
    /\ files \in {{}, {[path |-> PathJoin(Str_outputs, <<"a", ".">> \o Str_md),
                        content |-> <<"old">>]}}
    /\ remote \in {{}, {[bucket |-> <<"b", "k", "t">>,
                         key |-> ObjectKey(PathJoin(Str_outputs, <<"a", ".">> \o Str_md),
                                           Str_beta),
                         body |-> <<"old">>, ctype |-> "text/markdown"]}}
    /\ stdout = <<>>
    /\ pc = "start"
    /\ job = 0
    /\ environment = <<>>
    /\ region = <<>>
    /\ cfg = NoCfg
    /\ prompt = <<>>
    /\ output = <<>>
    /\ out_file = <<>>
    /\ exit = 0
    /\ error = ""
    /\ events = <<>>
    /\ requests = <<>>
    /\ writes = <<>>
    /\ uploads = <<>>

Range(s) == {s[n] : n \in 1..Len(s)}
Count(s, j) == Cardinality({n \in 1..Len(s) : s[n].job = j})

Event(stage, ok) == [job |-> job, stage |-> stage, ok |-> ok]

\* Mutant: the exception is caught at the top and main returns normally.
Raise_exit_zero(stage, exc) ==
    /\ pc' = "done"
    /\ exit' = 0
    /\ error' = exc
    /\ events' = Append(events, Event(stage, FALSE))

\* An exception nothing catches: the interpreter prints the traceback and
\* exits with status 1.
Raise(stage, exc) ==
    /\ pc' = "done"
    /\ exit' = 1
    /\ error' = exc
    /\ events' = Append(events, Event(stage, FALSE))

\* os.environ.get("ENVIRONMENT", "beta")
EnvironGet(name, default) ==
    IF name \in DOMAIN environ THEN environ[name] ELSE default

(***************************************************************************)
(* main, lines 77-78: the environment tag and the region.                  *)
(***************************************************************************)
StartFail ==
    /\ pc = "start"
    /\ "AWS_REGION" \notin DOMAIN environ
    /\ environment' = EnvironGet("ENVIRONMENT", Str_beta)
    /\ pc' = "done"
    /\ exit' = 1
    /\ error' = "KeyError"
    /\ UNCHANGED <<environ, prompts, world, job, region, cfg, prompt, output,
                   out_file, events, history>>

\* The loop of line 80 starts on the first file, or ends at once.
StartOK ==
    /\ pc = "start"
    /\ "AWS_REGION" \in DOMAIN environ
    /\ environment' = EnvironGet("ENVIRONMENT", Str_beta)
    /\ region' = environ["AWS_REGION"]
    /\ IF prompts = <<>>
       THEN pc' = "done" /\ job' = job
       ELSE pc' = "load" /\ job' = 1
    /\ UNCHANGED <<environ, prompts, world, cfg, prompt, output, out_file, exit,
                   error, events, history>>

(***************************************************************************)
(* load_config, line 81.                                                   *)
(***************************************************************************)
LoadOK ==
    /\ pc = "load"
    /\ prompts[job].wellformed
    /\ cfg' = prompts[job].json
    /\ pc' = "render"
    /\ events' = Append(events, Event("load", TRUE))
    /\ UNCHANGED <<environ, prompts, world, job, environment, region, prompt,
                   output, out_file, exit, error, history>>

LoadFail ==
    /\ pc = "load"
    /\ ~prompts[job].wellformed
    /\ Raise("load", "JSONDecodeError")
    /\ UNCHANGED <<environ, prompts, world, job, locals, history>>

(***************************************************************************)
(* render_template, line 83.                                               *)
(***************************************************************************)
RenderResult ==
    IF {"template", "variables"} \subseteq DOMAIN cfg
    THEN render_template(cfg.template, cfg.variables)
    ELSE [ok |-> FALSE, exc |-> "KeyError", text |-> <<>>]

\* Mutant: the rendered prompt goes straight to save_output.
RenderOK_skips_generate ==
    /\ pc = "render"
    /\ RenderResult.ok
    /\ prompt' = RenderResult.text
    /\ pc' = "write"
    /\ events' = Append(events, Event("render", TRUE))
    /\ UNCHANGED <<environ, prompts, world, job, environment, region, cfg, output,
                   out_file, exit, error, history>>

RenderOK ==
    /\ pc = "render"
    /\ RenderResult.ok
    /\ prompt' = RenderResult.text
    /\ pc' = "generate"
    /\ events' = Append(events, Event("render", TRUE))
    /\ UNCHANGED <<environ, prompts, world, job, environment, region, cfg, output,
                   out_file, exit, error, history>>

\* Mutant: the failure is logged and the loop goes on to the next file.
RenderFail_skips_job ==
    /\ pc = "render"
    /\ ~RenderResult.ok
    /\ exit' = 1
    /\ error' = RenderResult.exc
    /\ events' = Append(events, Event("render", FALSE))
    /\ IF job < Len(prompts)
       THEN pc' = "load" /\ job' = job + 1
       ELSE pc' = "done" /\ job' = job
    /\ UNCHANGED <<environ, prompts, world, locals, history>>

RenderFail ==
    /\ pc = "render"
    /\ ~RenderResult.ok
    /\ Raise("render", RenderResult.exc)
    /\ UNCHANGED <<environ, prompts, world, job, locals, history>>

(***************************************************************************)
(* call_bedrock, line 84: one invoke_model call, then the text of the      *)
(* first content block of the response.                                    *)
(***************************************************************************)
Request ==
    [job |-> job, modelId |-> MODEL_ID, max_tokens |-> cfg.max_tokens,
     content |-> <<"Human: ">> \o prompt]

GenerateOK ==
    /\ pc = "generate"
    /\ "max_tokens" \in DOMAIN cfg
    /\ \E text \in Texts : output' = text
    /\ requests' = Append(requests, Request)
    /\ pc' = "write"
    /\ events' = Append(events, Event("generate", TRUE))
    /\ UNCHANGED <<environ, prompts, world, job, environment, region, cfg, prompt,
                   out_file, exit, error, writes, uploads>>

\* Mutant: a failed call yields an empty text and the job goes on.
GenerateFail_swallowed ==
    /\ pc = "generate"
    /\ requests' = Append(requests, Request)
    /\ output' = <<>>
    /\ pc' = "write"
    /\ events' = Append(events, Event("generate", FALSE))
    /\ UNCHANGED <<environ, prompts, world, job, environment, region, cfg, prompt,
                   out_file, exit, error, writes, uploads>>

\* Mutant: a failed call is tried once more before giving up.
GenerateFail_retries ==
    /\ pc = "generate"
    /\ requests' = Append(requests, Request)
    /\ IF Count(requests, job) < 1
       THEN UNCHANGED <<pc, exit, error, events>>
       ELSE Raise("generate", "ClientError")
    /\ UNCHANGED <<environ, prompts, world, job, locals, writes, uploads>>

\* boto3.client raises, invoke_model raises, or the response has no
\* content[0].text.
GenerateFail ==
    /\ pc = "generate"
    /\ \E cause \in {"client", "invoke_model", "response"} :
          /\ requests' = IF cause = "client" \/ "max_tokens" \notin DOMAIN cfg
                         THEN requests
                         ELSE Append(requests, Request)
          /\ Raise("generate", IF "max_tokens" \notin DOMAIN cfg \/ cause = "response"
                               THEN "KeyError" ELSE "ClientError")
    /\ UNCHANGED <<environ, prompts, world, job, locals, writes, uploads>>

(***************************************************************************)
(* save_output, line 86.                                                   *)
(***************************************************************************)
ReadFile(fs, path) == (CHOOSE f \in fs : f.path = path).content

Ext(fmt) == IF fmt = Str_html THEN Str_html ELSE Str_md

FilePath(slug, fmt) == PathJoin(Str_outputs, slug \o <<".">> \o Ext(fmt))

\* Mutant: the file is opened for appending.
WriteFile_appends(fs, path, content) ==
    {f \in fs : f.path # path}
        \cup {[path |-> path,
               content |-> IF \E f \in fs : f.path = path
                           THEN (CHOOSE f \in fs : f.path = path).content \o content
                           ELSE content]}

WriteFile(fs, path, content) ==
    {f \in fs : f.path # path} \cup {[path |-> path, content |-> content]}

HasOutputKeys == {"slug", "output_format"} \subseteq DOMAIN cfg

WriteOK ==
    /\ pc = "write"
    /\ HasOutputKeys
    /\ LET file_path == FilePath(cfg.slug, cfg.output_format)
       IN  /\ files' = WriteFile(files, file_path, output)
           /\ writes' = Append(writes, [job |-> job, path |-> file_path,
                                        text |-> output, done |-> TRUE])
           /\ out_file' = file_path
    /\ pc' = "upload"
    /\ events' = Append(events, Event("write", TRUE))
    /\ UNCHANGED <<environ, prompts, remote, stdout, job, environment, region, cfg,
                   prompt, output, exit, error, requests, uploads>>

\* A key of the descriptor is missing, or mkdir or open raises: nothing is
\* touched.
WriteFailEarly ==
    /\ pc = "write"
    /\ Raise("write", IF HasOutputKeys THEN "OSError" ELSE "KeyError")
    /\ UNCHANGED <<environ, prompts, world, job, locals, history>>

\* open succeeded and truncated the file; the write raises and leaves a
\* proper prefix of the content.
WriteFailLate ==
    /\ pc = "write"
    /\ HasOutputKeys
    /\ LET file_path == FilePath(cfg.slug, cfg.output_format)
       IN  /\ \E n \in 0..(Len(output) - 1) :
                 files' = WriteFile(files, file_path, SubSeq(output, 1, n))
           /\ writes' = Append(writes, [job |-> job, path |-> file_path,
                                        text |-> output, done |-> FALSE])
    /\ Raise("write", "OSError")
    /\ UNCHANGED <<environ, prompts, remote, stdout, job, locals, requests, uploads>>

(***************************************************************************)
(* upload_to_s3, line 88.                                                  *)
(***************************************************************************)
ContentType(file_path) ==
    IF PathSuffix(file_path) = <<".">> \o Str_html THEN "text/html" ELSE "text/markdown"


UploadCall(ok) ==
    [job |-> job, file |-> out_file, bucket |-> environ["S3_BUCKET"],
     key |-> ObjectKey(out_file, environment), ctype |-> ContentType(out_file),
     body |-> ReadFile(files, out_file), ok |-> ok]

PutObject(objects, call) ==
    {o \in objects : ~(o.bucket = call.bucket /\ o.key = call.key)}
        \cup {[bucket |-> call.bucket, key |-> call.key, body |-> call.body,
               ctype |-> call.ctype]}

\* The loop of line 80 goes on to the next file, or main returns.
UploadOK ==
    /\ pc = "upload"
    /\ {"AWS_REGION", "S3_BUCKET"} \subseteq DOMAIN environ
    /\ uploads' = Append(uploads, UploadCall(TRUE))
    /\ remote' = PutObject(remote, UploadCall(TRUE))
    /\ stdout' = Append(stdout, [bucket |-> environ["S3_BUCKET"],
                                 key |-> ObjectKey(out_file, environment)])
    /\ events' = Append(events, Event("upload", TRUE))
    /\ IF job < Len(prompts)
       THEN pc' = "load" /\ job' = job + 1
       ELSE pc' = "done" /\ job' = job
    /\ UNCHANGED <<environ, prompts, files, locals, exit, error, requests, writes>>

\* os.environ["S3_BUCKET"] raises KeyError, or boto3.client raises.
UploadFailEarly ==
    /\ pc = "upload"
    /\ Raise("upload", IF {"AWS_REGION", "S3_BUCKET"} \subseteq DOMAIN environ
                       THEN "ClientError" ELSE "KeyError")
    /\ UNCHANGED <<environ, prompts, world, job, locals, history>>

\* Mutant: a failed upload removes the local file.
UploadFailCall_cleans_up ==
    /\ pc = "upload"
    /\ {"AWS_REGION", "S3_BUCKET"} \subseteq DOMAIN environ
    /\ uploads' = Append(uploads, UploadCall(FALSE))
    /\ files' = {f \in files : f.path # out_file}
    /\ Raise("upload", "S3UploadFailedError")
    /\ UNCHANGED <<environ, prompts, remote, stdout, job, locals, requests, writes>>

\* s3.upload_file raises: no object is stored, nothing is printed.
UploadFailCall ==
    /\ pc = "upload"
    /\ {"AWS_REGION", "S3_BUCKET"} \subseteq DOMAIN environ
    /\ uploads' = Append(uploads, UploadCall(FALSE))
    /\ Raise("upload", "S3UploadFailedError")
    /\ UNCHANGED <<environ, prompts, world, job, locals, requests, writes>>

Next ==
    \/ StartFail
    \/ StartOK
    \/ LoadOK
    \/ LoadFail
    \/ RenderOK
    \/ RenderFail
    \/ GenerateOK
    \/ GenerateFail
    \/ WriteOK
    \/ WriteFailEarly
    \/ WriteFailLate
    \/ UploadOK
    \/ UploadFailEarly
    \/ UploadFailCall

Spec == Init /\ [][Next]_vars

\* The single thread runs on: every call returns or raises.
FairSpec == Spec /\ WF_vars(Next)

(***************************************************************************)
(* Properties.                                                             *)
(***************************************************************************)
Indices(s) == 1..Len(s)
AllOK == \A n \in Indices(events) : events[n].ok
Aborted == pc = "done" /\ events # <<>> /\ ~events[Len(events)].ok
FailedStage == events[Len(events)].stage
FailedJob == events[Len(events)].job
Exists(path) == \E f \in files : f.path = path
Content(path) == ReadFile(files, path)
IsPrefix(a, b) == Len(a) <= Len(b) /\ a = SubSeq(b, 1, Len(a))
LastWrite(path) ==
    writes[CHOOSE n \in Indices(writes) :
              /\ writes[n].path = path
              /\ \A m \in Indices(writes) : writes[m].path = path => m <= n]
LastCompletedWrite(path) ==
    writes[CHOOSE n \in Indices(writes) :
              /\ writes[n].path = path /\ writes[n].done
              /\ \A m \in Indices(writes) :
                    writes[m].path = path /\ writes[m].done => m <= n]
Stored ==
    {uploads[n] : n \in {m \in Indices(uploads) : uploads[m].ok}}
LastUpload(key) ==
    uploads[CHOOSE n \in Indices(uploads) :
               /\ uploads[n].ok /\ uploads[n].key = key
               /\ \A m \in Indices(uploads) :
                     uploads[m].ok /\ uploads[m].key = key => m <= n]
HistoryJobs ==
    {r.job : r \in Range(requests)} \cup {w.job : w \in Range(writes)}
        \cup {u.job : u \in Range(uploads)} \cup {e.job : e \in Range(events)}

\* C1: a stage failing in job k ends the run at once: the failed stage is
\* the last stage ever executed, the process is over with a non-zero status,
\* and no job after k has a stage, a generation call, a local file or an
\* upload.
C1_AbortEndsRun ==
    \A n \in Indices(events) :
        ~events[n].ok =>
            /\ n = Len(events)
            /\ pc = "done"
            /\ exit = 1
            /\ \A j \in HistoryJobs : j <= events[n].job

\* C1 witness: two descriptors, the first one's template file is missing, the
\* run is over and the second job never ran.
C1_Witness ==
    /\ Len(prompts) = 2
    /\ pc = "done"
    /\ Len(events) = 2
    /\ events[2] = [job |-> 1, stage |-> "render", ok |-> FALSE]
    /\ error = "FileNotFoundError"
    /\ prompts[2].wellformed
    /\ writes = <<>> /\ uploads = <<>>

\* C2: when the generation call of a job fails (the call raises, or the
\* response lacks the text), no file is opened for writing and no upload is
\* attempted for that job.
C2_FailedGenerationWritesNothing ==
    \A n \in Indices(events) :
        (events[n].stage = "generate" /\ ~events[n].ok) =>
            /\ Count(writes, events[n].job) = 0
            /\ Count(uploads, events[n].job) = 0
            /\ \A m \in Indices(events) :
                  events[m].job = events[n].job => events[m].stage \notin {"write", "upload"}

\* C2 witness: the generation request of the second job was sent and failed,
\* after the first job wrote and uploaded.
C2_Witness ==
    /\ pc = "done"
    /\ Aborted /\ FailedStage = "generate" /\ FailedJob = 2
    /\ Count(requests, 2) = 1
    /\ Count(writes, 1) = 1 /\ Count(uploads, 1) = 1

\* C3 (as claimed): a render stage whose template references a variable that
\* the job's mapping lacks fails with the render error, and the job makes no
\* generation call and writes no file.
C3_UndefinedVariableFailsRender ==
    \A n \in Indices(events) :
        LET d == prompts[events[n].job].json
        IN  ( /\ events[n].stage = "render"
              /\ d.template \in DOMAIN TemplateFiles
              /\ \E x \in TemplateRefs(TemplateFiles[d.template]) :
                    ~Defined(d.variables, x) )
            => /\ ~events[n].ok
               /\ error = "UndefinedError"
               /\ Count(requests, events[n].job) = 0
               /\ Count(writes, events[n].job) = 0

\* C4 (as claimed): with AWS_REGION or S3_BUCKET missing no descriptor is
\* loaded, no template rendered, no generation call made, no file written
\* and no upload attempted.
C4_MissingSettingStopsAtStartup ==
    ~({"AWS_REGION", "S3_BUCKET"} \subseteq DOMAIN environ) =>
        /\ \A n \in Indices(events) : ~events[n].ok
        /\ requests = <<>> /\ writes = <<>> /\ uploads = <<>>
        /\ stdout = <<>>

\* C5 (as claimed): every upload call of a job with slug s and format f names
\* the local file outputs/s.html when f = "html" and outputs/s.md otherwise,
\* the key e/outputs/<that file's name> with e the ENVIRONMENT value or
\* "beta", and the content type text/html exactly when f = "html".
C5_UploadNaming ==
    \A u \in Range(uploads) :
        LET d == prompts[u.job].json
            e == IF "ENVIRONMENT" \in DOMAIN environ THEN environ["ENVIRONMENT"]
                 ELSE <<"b", "e", "t", "a">>
            name == d.slug \o (IF d.output_format = <<"h", "t", "m", "l">>
                               THEN <<".", "h", "t", "m", "l">>
                               ELSE <<".", "m", "d">>)
        IN  /\ u.file = <<"o", "u", "t", "p", "u", "t", "s", "/">> \o name
            /\ u.key = e \o <<"/", "o", "u", "t", "p", "u", "t", "s", "/">> \o name
            /\ u.ctype = IF d.output_format = <<"h", "t", "m", "l">>
                         THEN "text/html" ELSE "text/markdown"

\* C6 (as claimed): when the run is over, the exit status is zero exactly
\* when no stage of any job failed.
C6_ExitZeroIffNoStageFailed ==
    pc = "done" => (exit = 0 <=> AllOK)

\* C6 (amended): the run terminates; its exit status is zero exactly when
\* AWS_REGION is set and no stage of any job failed; and a run that exits
\* zero has printed one confirmation line per completed upload, one upload
\* per discovered descriptor.
C6_TerminatesWithStatus ==
    /\ <>(pc = "done")
    /\ [](pc = "done" =>
            /\ exit = 0 <=> ("AWS_REGION" \in DOMAIN environ /\ AllOK)
            /\ exit = 0 =>
                  /\ Len(stdout) = Cardinality(Stored)
                  /\ Cardinality(Stored) = Len(prompts)
                  /\ Len(uploads) = Len(prompts))

\* C6 witness: a run over two descriptors ended with status zero and two
\* confirmation lines.
C6_Witness ==
    pc = "done" /\ exit = 0 /\ Len(prompts) = 2 /\ Len(stdout) = 2

\* C7: nothing is retried: every descriptor causes at most one generation
\* request, one file opened for writing and one upload call, and a job that
\* completed causes exactly one of each and has its one output file on disk.
C7_NoRetry ==
    \A j \in Indices(prompts) :
        /\ Count(requests, j) <= 1
        /\ Count(writes, j) <= 1
        /\ Count(uploads, j) <= 1
        /\ [job |-> j, stage |-> "upload", ok |-> TRUE] \in Range(events) =>
              /\ Count(requests, j) = 1
              /\ Count(writes, j) = 1
              /\ Count(uploads, j) = 1
              /\ \A w \in Range(writes) : w.job = j => (w.done /\ Exists(w.path))

\* C7 witness: a generation request failed and the run is over, with that
\* one request only; the job before it completed.
C7_Witness ==
    /\ Aborted /\ FailedStage = "generate" /\ FailedJob = 2
    /\ error = "ClientError"
    /\ Count(requests, 2) = 1
    /\ [job |-> 1, stage |-> "upload", ok |-> TRUE] \in Range(events)

StageOrder == <<"load", "render", "generate", "write", "upload">>
StageNo(stage) == CHOOSE k \in 1..5 : StageOrder[k] = stage

\* C8: stages run in the order load, render, generate, write, upload within
\* a job, each after the previous one succeeded, and the first stage of the
\* next job runs only after the upload of the job before it completed.
C8_StagesInOrder ==
    \A n \in Indices(events) :
        IF n = 1
        THEN events[n].job = 1 /\ events[n].stage = "load"
        ELSE /\ events[n - 1].ok
             /\ \/ /\ events[n].job = events[n - 1].job
                   /\ StageNo(events[n].stage) = StageNo(events[n - 1].stage) + 1
                \/ /\ events[n].job = events[n - 1].job + 1
                   /\ events[n].stage = "load"
                   /\ events[n - 1].stage = "upload"

\* C8 witness: two jobs ran all five stages each.
C8_Witness ==
    /\ Len(events) = 10
    /\ events[5] = [job |-> 1, stage |-> "upload", ok |-> TRUE]
    /\ events[6] = [job |-> 2, stage |-> "load", ok |-> TRUE]
    /\ events[10] = [job |-> 2, stage |-> "upload", ok |-> TRUE]

WrittenPaths == {w.path : w \in Range(writes)}

\* C9 (as claimed): every path a job of the run wrote holds the generated
\* text of the most recent job that wrote it (be that the last job that
\* opened the file or the last one whose write completed), and every upload
\* carries the text its own job wrote.
C9_LastWriteWins ==
    /\ \A path \in {w.path : w \in {x \in Range(writes) : x.done}} :
          /\ Exists(path)
          /\ \/ Content(path) = LastWrite(path).text
             \/ Content(path) = LastCompletedWrite(path).text
    /\ \A u \in Range(uploads) :
          \E w \in Range(writes) :
              w.job = u.job /\ w.path = u.file /\ w.text = u.body

\* C9 (amended): every path a job of the run opened for writing holds the
\* generated text of the most recent such job when that job's write
\* completed, and a proper prefix of that text when its write raised; what
\* the file held before is gone in both cases.  Every upload carries the
\* text its own job wrote.
C9_LastWriteWinsOrTruncates ==
    /\ \A path \in WrittenPaths :
          /\ Exists(path)
          /\ IF LastWrite(path).done
             THEN Content(path) = LastWrite(path).text
             ELSE /\ IsPrefix(Content(path), LastWrite(path).text)
                  /\ Content(path) # LastWrite(path).text
    /\ \A u \in Range(uploads) :
          \E w \in Range(writes) :
              w.job = u.job /\ w.done /\ w.path = u.file /\ w.text = u.body

\* C9 witness: two jobs wrote the same path with different texts, over a
\* file that existed before the run, and the second job uploaded.
C9_Witness ==
    /\ Len(writes) = 2
    /\ writes[1].path = writes[2].path
    /\ writes[1].text # writes[2].text
    /\ writes[1].done /\ writes[2].done
    /\ Len(uploads) = 2 /\ uploads[2].ok
    /\ writes[1].path = <<"o", "u", "t", "p", "u", "t", "s", "/", "a", ".", "m", "d">>
    /\ environ["S3_BUCKET"] = <<"b", "k", "t">>
    /\ \E o \in remote : o.body = writes[2].text

====
